---- MODULE Spec2Model ----
(***************************************************************************)
(* A model of rss_processor.py: RSSProcessor's date filter, content        *)
(* extractor, content cleaner, daily batch file and feed loop.             *)
(*                                                                         *)
(* Time is counted in ticks, DayLen ticks to a calendar day.  A text is a  *)
(* sequence of characters of Chars, where the character references &lt;    *)
(* and &gt; count as one character each.  A field of a feed entry that may *)
(* be missing is a sequence of length 0 (missing) or 1 (present).          *)
(***************************************************************************)
EXTENDS Integers, Sequences, FiniteSets, TLC

VARIABLES
    \* the clock and the processor object (rss_processor.py __init__)
    now, start_date, end_date,
    \* the directory as the run, or the two runs, found it
    dirAtStart,
    \* the processed-articles directory: file name -> file
    files,
    \* process_feeds: position, loop variables, the article about to be saved
    pc, feedIdx, numEntries, entryIdx, entry, articles_processed, article_data,
    \* history of the run: outcome of each feed fetch, entries of the feed last
    \* fetched that reached the date filter, calls of save_article, number of
    \* cleanups and the directory before cleanup
    fetched, examined, handed, cleanups, beforeCleanup,
    \* one call of a function of RSSProcessor: its arguments and its result
    call, article, response, content, returned,
    \* two runs appending to the same batch file
    runPc, existing_articles, runLeft, overlapped

vars == <<now, start_date, end_date, dirAtStart, files, pc, feedIdx, numEntries, entryIdx,
          entry, articles_processed, article_data, fetched, examined, handed,
          cleanups, beforeCleanup, call, article, response, content, returned,
          runPc, existing_articles, runLeft, overlapped>>

-----------------------------------------------------------------------------
(* Bounds of the model *)

\* ticks in a calendar day
DayLen == 2
\* the calendar day on which the processor is constructed
StartDay == 2
\* length of the texts given to clean_content
MaxLen == 3
\* feeds of the configured list
NumFeeds == 2
\* entries of a fetched feed
MaxEntries == 3
\* articles each of two concurrent runs appends
ArticlesPerRun == 2
\* the configured limit, int(os.getenv('MAX_ARTICLES_PER_FEED', '50'))
MAX_ARTICLES_PER_FEED == 2

-----------------------------------------------------------------------------
(* Dates: datetime.date() of a tick count *)

date(t) == t \div DayLen

\* A date field of an entry: missing, the empty string, a string dateutil
\* cannot parse, or a string that parses to the tick ts.
NoDate == [text |-> "absent", ts |-> 0]
EmptyDate == [text |-> "empty", ts |-> 0]
GarbageDate == [text |-> "garbage", ts |-> 0]
DateAt(t) == [text |-> "date", ts |-> t]

\* dict.get(key, default)
Get(d, key, default) == IF d[key].text = "absent" THEN default ELSE d[key]

\* A bug is_article_from_yesterday could have: the range check alone, without
\* the comparison to the start date.
FilterBodyRangeOnly(a, start, end) ==
    LET pub_date == Get(a, "published", Get(a, "pubDate", Get(a, "updated", NoDate)))
    IN  IF pub_date.text \in {"absent", "empty"} THEN "False"
        ELSE IF pub_date.text = "garbage" THEN "raise"
        ELSE IF date(start) <= date(pub_date.ts) /\ date(pub_date.ts) <= date(end)
             THEN "True" ELSE "False"

\* The try block of is_article_from_yesterday: "True", "False", or "raise"
\* when parser.parse raises.
FilterBody(a, start, end) ==
    LET pub_date == Get(a, "published", Get(a, "pubDate", Get(a, "updated", NoDate)))
    IN  IF pub_date.text \in {"absent", "empty"} THEN "False"
        ELSE IF pub_date.text = "garbage" THEN "raise"
        ELSE LET article_date == pub_date.ts
                 is_yesterday ==
                     /\ date(article_date) = date(start)
                     /\ date(start) <= date(article_date)
                     /\ date(article_date) <= date(end)
             IN  IF is_yesterday THEN "True" ELSE "False"

\* except Exception: return False
is_article_from_yesterday(a, start, end) ==
    LET r == FilterBody(a, start, end)
    IN  IF r = "raise" THEN "False" ELSE r

-----------------------------------------------------------------------------
(* Texts *)

Letter == "x"
Chars == {Letter, " ", "<", ">", "&lt;", "&gt;"}

\* the least index j >= from with t[j] = ch, or 0
FirstIndex(t, from, ch) ==
    IF \E j \in from..Len(t) : t[j] = ch
    THEN CHOOSE j \in from..Len(t) :
             t[j] = ch /\ \A k \in from..(j - 1) : t[k] # ch
    ELSE 0

\* BeautifulSoup(content, 'html.parser'): the strings of the document, in
\* order.  A "<" before a letter opens a tag that ends at the next ">"; a tag
\* ends the current string.  A tag never closed is text, passed on as it is up
\* to the next "<".  A character reference becomes its character.
RECURSIVE ParseStrings(_, _, _, _)
ParseStrings(t, i, cur, nodes) ==
    IF i > Len(t) THEN Append(nodes, cur)
    ELSE IF t[i] = "<" /\ i + 1 <= Len(t) /\ t[i + 1] = Letter
    THEN LET j == FirstIndex(t, i + 1, ">")
             k0 == FirstIndex(t, i + 1, "<")
             k == IF k0 = 0 THEN i + 1 ELSE k0
         IN  IF j # 0
             THEN ParseStrings(t, j + 1, <<>>, Append(nodes, cur))
             ELSE ParseStrings(t, k, cur \o SubSeq(t, i, k - 1), nodes)
    ELSE IF t[i] = "&lt;" THEN ParseStrings(t, i + 1, Append(cur, "<"), nodes)
    ELSE IF t[i] = "&gt;" THEN ParseStrings(t, i + 1, Append(cur, ">"), nodes)
    ELSE ParseStrings(t, i + 1, Append(cur, t[i]), nodes)

\* str.strip()
RECURSIVE strip(_)
strip(s) ==
    IF s = <<>> THEN s
    ELSE IF Head(s) = " " THEN strip(Tail(s))
    ELSE IF s[Len(s)] = " " THEN strip(SubSeq(s, 1, Len(s) - 1))
    ELSE s

\* get_text(separator=' ', strip=True): the stripped strings that are not
\* empty, joined by one space
RECURSIVE get_text(_)
get_text(nodes) ==
    IF nodes = <<>> THEN <<>>
    ELSE LET first == strip(Head(nodes))
             rest == get_text(Tail(nodes))
         IN  IF first = <<>> THEN rest
             ELSE IF rest = <<>> THEN first
             ELSE first \o <<" ">> \o rest

clean_content(c) == get_text(ParseStrings(c, 1, <<>>, <<>>))

-----------------------------------------------------------------------------
(* extract_article_content *)

\* the word count a located container must exceed
SubstantialWords == 50

\* What fetching and reading the page of an entry comes to: "error" is a
\* requests.RequestException of the fetch, "raise" any other exception raised
\* while the page is parsed and its text extracted, "html" a page read to the
\* end, with or without a located container, the joined text of the container
\* and the number of words of that text.
Response(kind, container, text, words) ==
    [kind |-> kind, container |-> container, text |-> text, words |-> words]

\* lines 193-200: the entry's own content, after a page without substantial text
FallbackOnMiss(a) ==
    IF a.content # <<>> THEN a.content[1]
    ELSE IF a.summary # <<>> THEN a.summary[1]
    ELSE IF a.description # <<>> THEN a.description[1]
    ELSE <<>>

\* A bug the fallback could have: the summary tried before the rich content.
FallbackSummaryFirst(a) ==
    IF a.summary # <<>> THEN a.summary[1]
    ELSE IF a.content # <<>> THEN a.content[1]
    ELSE IF a.description # <<>> THEN a.description[1]
    ELSE <<>>

\* lines 205-211: the entry's own content, after a failed fetch
FallbackOnError(a) ==
    IF a.content # <<>> THEN a.content[1]
    ELSE IF a.summary # <<>> THEN a.summary[1]
    ELSE IF a.description # <<>> THEN a.description[1]
    ELSE <<>>

extract_article_content(a, r) ==
    IF a.link = <<>> THEN <<>>
    ELSE IF r.kind = "error" THEN FallbackOnError(a)
    ELSE IF r.kind = "raise" THEN <<>>
    ELSE IF r.container /\ r.text # <<>> /\ r.words > SubstantialWords
         THEN r.text
    ELSE FallbackOnMiss(a)

-----------------------------------------------------------------------------
(* The processed-articles directory *)

\* A file: missing, not JSON, a JSON array of articles, or a JSON object (a
\* per-article file of the earlier storage scheme).
AbsentFile == [kind |-> "absent", data |-> <<>>]
CorruptFile == [kind |-> "invalid", data |-> <<>>]
ObjectFile == [kind |-> "object", data |-> <<>>]
ArrayFile(articles) == [kind |-> "array", data |-> articles]

\* f"articles_{date_str}.json" with date_str = datetime.now().strftime('%Y%m%d')
BatchName(t) == <<"articles", date(t), "json">>

\* A bug save_article could have: the file is not read, every save starts
\* from the empty array.
LoadNothing(file) == <<>>

\* lines 318-325: the starting array
LoadExisting(file) == IF file.kind = "array" THEN file.data ELSE <<>>

\* A bug save_article could have: the new article put first.
WriteBackInFront(existing, a) == ArrayFile(<<a>> \o existing)

\* lines 328-332: the array written back
WriteBack(existing, a) == ArrayFile(Append(existing, a))

\* save_article at time t.  Appending to a JSON value that is no array raises,
\* and the except clause leaves the file as it was.
save_article(fs, a, t) ==
    LET filepath == BatchName(t)
    IN  IF fs[filepath].kind = "object" THEN fs
        ELSE [fs EXCEPT ![filepath] = WriteBack(LoadExisting(fs[filepath]), a)]

\* PROCESSED_ARTICLES_DIR.glob('*.json')
json_files(fs) == {n \in DOMAIN fs : fs[n].kind # "absent" /\ n[3] = "json"}

\* A bug cleanup_old_files could have: the combined file not skipped.
CleanupAllJson(fs, t, failing) ==
    [n \in DOMAIN fs |->
        IF n \in json_files(fs) /\ n \notin failing THEN AbsentFile ELSE fs[n]]

\* cleanup_old_files at time t; unlink raises for the files of failing
cleanup_old_files(fs, t, failing) ==
    LET combined_file == BatchName(t)
    IN  [n \in DOMAIN fs |->
            IF n \in json_files(fs) /\ n # combined_file /\ n \notin failing
            THEN AbsentFile ELSE fs[n]]

-----------------------------------------------------------------------------
(* Feed entries and articles *)

Entry(published, pubDate, updated, link, rich, summary, description) ==
    [published |-> published, pubDate |-> pubDate, updated |-> updated,
     link |-> link, content |-> rich, summary |-> summary,
     description |-> description]

\* article_data: the feed, the entry's title, link and published string (here
\* the entry's place in its feed) and the cleaned content
Article(feed_url, link, cleaned) ==
    [feed_url |-> feed_url, link |-> link, content |-> cleaned]

\* fetch_feed: the feed, or nothing when feedparser raises or reports bozo.
\* Of the feed the model keeps the number of its entries: an entry is chosen
\* when the loop of process_feeds reaches it, which is when it is first read.
fetch_feed(result) ==
    IF result.raises \/ result.bozo THEN <<>> ELSE <<result.entries>>

\* A bug process_article could have: empty content not discarded.
ProcessArticleKeepEmpty(a, feed_url, link, r, tokenizerOk) ==
    IF ~tokenizerOk THEN <<>>
    ELSE <<[feed_url |-> feed_url, link |-> link,
            content |-> clean_content(extract_article_content(a, r))]>>

\* process_article: nothing when the cleaned content is empty or when building
\* the record raises (nltk.sent_tokenize at line 296), else the article
process_article(a, feed_url, link, r, tokenizerOk) ==
    LET cleaned_content == clean_content(extract_article_content(a, r))
    IN  IF cleaned_content = <<>> THEN <<>>
        ELSE IF ~tokenizerOk THEN <<>>
        ELSE <<Article(feed_url, link, cleaned_content)>>

\* A bug the loop test could have: one article too many.
CapReachedLate(n) == n > MAX_ARTICLES_PER_FEED

\* the loop test of line 373
CapReached(n) == n >= MAX_ARTICLES_PER_FEED

-----------------------------------------------------------------------------
(* What the world can give a run *)

Url == <<"url">>
Summary == <<"<", "x", ">", "x">>
PageText == <<"x">>

\* what process_feeds meets when it fetches the page of an entry
Responses ==
    { Response("error", FALSE, <<>>, 0),
      Response("raise", FALSE, <<>>, 0),
      Response("html", FALSE, <<>>, 0),
      Response("html", TRUE, PageText, SubstantialWords),
      Response("html", TRUE, PageText, SubstantialWords + 1) }

\* the same, and a container without text or one word short of the threshold
AllResponses ==
    Responses \cup { Response("html", TRUE, <<>>, 0),
                     Response("html", TRUE, PageText, SubstantialWords - 1) }

\* entries of a feed fetched by a run that started at tick end: published the
\* day before, two days before, with a date that cannot be parsed, without a
\* link
RunEntries(end) ==
    { Entry(DateAt(end - DayLen), NoDate, NoDate, Url, <<>>, <<Summary>>, <<>>),
      Entry(NoDate, DateAt(end - 2 * DayLen), NoDate, Url, <<>>, <<Summary>>, <<>>),
      Entry(NoDate, NoDate, GarbageDate, Url, <<>>, <<Summary>>, <<>>),
      Entry(DateAt(end - DayLen), NoDate, NoDate, <<>>, <<>>, <<Summary>>, <<>>) }

FeedResults ==
    { [raises |-> TRUE, bozo |-> FALSE, entries |-> 0],
      [raises |-> FALSE, bozo |-> TRUE, entries |-> 0] }
    \cup { [raises |-> FALSE, bozo |-> FALSE, entries |-> n] : n \in 0..MaxEntries }

FirstTick == StartDay * DayLen
Days == (StartDay - 1)..(StartDay + 1)

LegacyName == <<"article", 1, "json">>
NotesName == <<"notes", 0, "txt">>
FileNames == {BatchName(d * DayLen) : d \in Days} \cup {LegacyName, NotesName}

RECURSIVE SeqsUpTo(_, _)
SeqsUpTo(S, n) ==
    IF n = 0 THEN {<<>>}
    ELSE LET shorter == SeqsUpTo(S, n - 1)
         IN  shorter \cup {Append(q, x) : q \in shorter, x \in S}

\* an article an earlier run left in a batch file
OldArticle == Article(0, 0, Summary)

\* the directory a run finds: the batch file of the day missing, corrupt or
\* holding an article; a per-article file of the earlier scheme; a file that
\* is no JSON file
InitialDirs ==
    { [n \in FileNames |->
          IF n = BatchName(FirstTick) THEN today
          ELSE IF n = LegacyName THEN ObjectFile
          ELSE IF n = NotesName THEN CorruptFile
          ELSE AbsentFile] :
        today \in {AbsentFile, CorruptFile, ArrayFile(<<OldArticle>>)} }

-----------------------------------------------------------------------------
(* Values of the variables a specification does not use *)

NoEntry == Entry(NoDate, NoDate, NoDate, <<>>, <<>>, <<>>, <<>>)
NoArticle == Article(0, 0, <<>>)
NoResponse == Response("none", FALSE, <<>>, 0)
NoDir == [n \in FileNames |-> AbsentFile]
Runs == {1, 2}

clockVars == <<now, start_date, end_date, dirAtStart>>
runVars == <<pc, feedIdx, numEntries, entryIdx, entry, articles_processed,
             article_data, fetched, examined, handed, cleanups, beforeCleanup>>
callVars == <<call, article, response, content, returned>>
raceVars == <<runPc, existing_articles, runLeft, overlapped>>

RunIdle ==
    /\ pc = "idle" /\ feedIdx = 1 /\ numEntries = 0 /\ entryIdx = 1
    /\ entry = NoEntry /\ articles_processed = 0 /\ article_data = NoArticle
    /\ fetched = [f \in 1..NumFeeds |-> "pending"]
    /\ examined = {} /\ handed = <<>> /\ cleanups = 0
    /\ beforeCleanup = [files |-> NoDir, t |-> 0, failing |-> {}]

CallIdle ==
    /\ call = "none" /\ article = NoEntry /\ response = NoResponse
    /\ content = <<>> /\ returned = <<>>

RaceIdle ==
    /\ runPc = [r \in Runs |-> "done"]
    /\ existing_articles = [r \in Runs |-> <<>>]
    /\ runLeft = [r \in Runs |-> 0]
    /\ overlapped = FALSE

-----------------------------------------------------------------------------
(* process_feeds: one run *)

\* RSSProcessor() at the last tick of StartDay, then process_feeds() entered
Init ==
    /\ now = FirstTick + DayLen - 1
    /\ end_date = now
    /\ start_date = end_date - DayLen
    /\ files \in InitialDirs
    /\ dirAtStart = files
    /\ pc = "feed" /\ feedIdx = 1 /\ numEntries = 0 /\ entryIdx = 1
    /\ entry = NoEntry /\ articles_processed = 0 /\ article_data = NoArticle
    /\ fetched = [f \in 1..NumFeeds |-> "pending"]
    /\ examined = {} /\ handed = <<>> /\ cleanups = 0
    /\ beforeCleanup = [files |-> NoDir, t |-> 0, failing |-> {}]
    /\ CallIdle /\ RaceIdle

\* A bug process_feeds could have: a feed that cannot be fetched ends the run.
FetchFeedFatal ==
    /\ pc = "feed" /\ feedIdx <= NumFeeds
    /\ \E result \in FeedResults :
         LET feed == fetch_feed(result)
         IN  IF feed = <<>>
             THEN /\ fetched' = [fetched EXCEPT ![feedIdx] = "failed"]
                  /\ pc' = "done"
                  /\ UNCHANGED <<feedIdx, numEntries, entryIdx, articles_processed,
                                 examined>>
             ELSE /\ fetched' = [fetched EXCEPT ![feedIdx] = "ok"]
                  /\ examined' = {}
                  /\ numEntries' = feed[1]
                  /\ entryIdx' = 1
                  /\ articles_processed' = 0
                  /\ pc' = "entry"
                  /\ UNCHANGED feedIdx
    /\ UNCHANGED <<entry, article_data, handed, cleanups, beforeCleanup>>
    /\ UNCHANGED <<clockVars, files, callVars, raceVars>>

\* lines 364-371: the next feed is fetched; a feed that cannot be fetched or
\* parsed is skipped
FetchFeed ==
    /\ pc = "feed" /\ feedIdx <= NumFeeds
    /\ \E result \in FeedResults :
         LET feed == fetch_feed(result)
         IN  IF feed = <<>>
             THEN /\ fetched' = [fetched EXCEPT ![feedIdx] = "failed"]
                  /\ feedIdx' = feedIdx + 1
                  /\ UNCHANGED <<pc, numEntries, entryIdx, articles_processed,
                                 examined>>
             ELSE /\ fetched' = [fetched EXCEPT ![feedIdx] = "ok"]
                  /\ examined' = {}
                  /\ numEntries' = feed[1]
                  /\ entryIdx' = 1
                  /\ articles_processed' = 0
                  /\ pc' = "entry"
                  /\ UNCHANGED feedIdx
    /\ UNCHANGED <<entry, article_data, handed, cleanups, beforeCleanup>>
    /\ UNCHANGED <<clockVars, files, callVars, raceVars>>

\* line 372: the entries of the feed are exhausted
EndOfFeed ==
    /\ pc = "entry" /\ entryIdx > numEntries
    /\ feedIdx' = feedIdx + 1
    /\ pc' = "feed"
    /\ UNCHANGED <<numEntries, entryIdx, entry, articles_processed, article_data,
                   fetched, examined, handed, cleanups, beforeCleanup>>
    /\ UNCHANGED <<clockVars, files, callVars, raceVars>>

\* lines 373-375: the limit of the feed is reached, break
LimitReached ==
    /\ pc = "entry" /\ entryIdx <= numEntries
    /\ CapReached(articles_processed)
    /\ feedIdx' = feedIdx + 1
    /\ pc' = "feed"
    /\ UNCHANGED <<numEntries, entryIdx, entry, articles_processed, article_data,
                   fetched, examined, handed, cleanups, beforeCleanup>>
    /\ UNCHANGED <<clockVars, files, callVars, raceVars>>

\* lines 378-379: the entry is not from yesterday, continue
SkipEntry ==
    /\ pc = "entry" /\ entryIdx <= numEntries
    /\ ~CapReached(articles_processed)
    /\ \E e \in RunEntries(end_date) :
         is_article_from_yesterday(e, start_date, end_date) # "True"
    /\ examined' = examined \cup {entryIdx}
    /\ entryIdx' = entryIdx + 1
    /\ UNCHANGED <<pc, feedIdx, numEntries, entry, articles_processed, article_data,
                   fetched, handed, cleanups, beforeCleanup>>
    /\ UNCHANGED <<clockVars, files, callVars, raceVars>>

\* lines 378-382: the entry is from yesterday; process_article fetches its
\* page and gives an article, or nothing
ProcessEntry ==
    /\ pc = "entry" /\ entryIdx <= numEntries
    /\ ~CapReached(articles_processed)
    /\ \E e \in RunEntries(end_date), r \in Responses, tokenizerOk \in BOOLEAN :
         LET made == process_article(e, feedIdx, entryIdx, r, tokenizerOk)
         IN  /\ is_article_from_yesterday(e, start_date, end_date) = "True"
             /\ IF made = <<>>
                THEN /\ entryIdx' = entryIdx + 1
                     /\ UNCHANGED <<pc, entry, article_data>>
                ELSE /\ entry' = e
                     /\ article_data' = made[1]
                     /\ pc' = "save"
                     /\ UNCHANGED entryIdx
    /\ examined' = examined \cup {entryIdx}
    /\ UNCHANGED <<feedIdx, numEntries, articles_processed, fetched, handed,
                   cleanups, beforeCleanup>>
    /\ UNCHANGED <<clockVars, files, callVars, raceVars>>

\* lines 383-385: save_article, then the counters
SaveArticle ==
    /\ pc = "save"
    /\ files' = save_article(files, article_data, now)
    /\ handed' = Append(handed, [feed |-> feedIdx, idx |-> entryIdx,
                                  entry |-> entry, article |-> article_data])
    /\ articles_processed' = articles_processed + 1
    /\ entryIdx' = entryIdx + 1
    /\ pc' = "entry"
    /\ UNCHANGED <<feedIdx, numEntries, entry, article_data, fetched, examined,
                   cleanups, beforeCleanup>>
    /\ UNCHANGED <<clockVars, callVars, raceVars>>

\* lines 389-392: after the last feed, cleanup_old_files, and the run ends
Cleanup ==
    /\ pc = "feed" /\ feedIdx > NumFeeds
    /\ \E failing \in SUBSET (json_files(files) \ {BatchName(now)}) :
         /\ files' = cleanup_old_files(files, now, failing)
         /\ beforeCleanup' = [files |-> files, t |-> now, failing |-> failing]
    /\ cleanups' = cleanups + 1
    /\ pc' = "done"
    /\ UNCHANGED <<feedIdx, numEntries, entryIdx, entry, articles_processed,
                   article_data, fetched, examined, handed>>
    /\ UNCHANGED <<clockVars, callVars, raceVars>>

\* Midnight passes during the run, once at most.  The run reads the clock in
\* save_article and in cleanup_old_files only, so the step is taken right
\* before one of them.
Midnight ==
    /\ pc = "save" \/ (pc = "feed" /\ feedIdx > NumFeeds)
    /\ date(now) = date(end_date)
    /\ now' = (date(now) + 1) * DayLen
    /\ UNCHANGED <<start_date, end_date, dirAtStart, files, runVars, callVars,
                   raceVars>>

Step ==
    \/ FetchFeed \/ EndOfFeed \/ LimitReached \/ SkipEntry \/ ProcessEntry
    \/ SaveArticle \/ Cleanup

Next == Step \/ Midnight

Spec == Init /\ [][Next]_vars

\* every call of the run returns, so the run takes its next step
FairSpec == Spec /\ WF_vars(Step)

-----------------------------------------------------------------------------
(* One call of is_article_from_yesterday *)

DateValues ==
    {NoDate, EmptyDate, GarbageDate}
    \cup {DateAt(t) : t \in (FirstTick - 2 * DayLen)..(FirstTick + DayLen - 1)}

FilterInit ==
    /\ now \in FirstTick..(FirstTick + DayLen - 1)
    /\ end_date = now
    /\ start_date = end_date - DayLen
    /\ files = NoDir
    /\ dirAtStart = files
    /\ RunIdle /\ RaceIdle
    /\ call = "pending"
    /\ article \in {Entry(p, q, u, Url, <<>>, <<>>, <<>>) :
                      p \in DateValues, q \in DateValues, u \in DateValues}
    /\ response = NoResponse /\ content = <<>> /\ returned = "none"

CallFilter ==
    /\ call = "pending"
    /\ returned' = is_article_from_yesterday(article, start_date, end_date)
    /\ call' = "returned"
    /\ UNCHANGED <<clockVars, files, runVars, raceVars, article, response, content>>

SpecFilter == FilterInit /\ [][CallFilter]_vars

-----------------------------------------------------------------------------
(* One call of extract_article_content *)

FieldTexts == {<<>>, <<"x">>, <<"x", "x">>}
FieldValues == {<<>>} \cup {<<t>> : t \in FieldTexts}

ExtractInit ==
    /\ now = FirstTick /\ end_date = now /\ start_date = end_date - DayLen
    /\ files = NoDir
    /\ dirAtStart = files
    /\ RunIdle /\ RaceIdle
    /\ call = "pending"
    /\ article \in {Entry(NoDate, NoDate, NoDate, l, c, s, d) :
                      l \in {<<>>, Url}, c \in FieldValues, s \in FieldValues,
                      d \in FieldValues}
    /\ response \in AllResponses
    /\ content = <<>> /\ returned = <<>>

CallExtract ==
    /\ call = "pending"
    /\ returned' = extract_article_content(article, response)
    /\ call' = "returned"
    /\ UNCHANGED <<clockVars, files, runVars, raceVars, article, response, content>>

SpecExtract == ExtractInit /\ [][CallExtract]_vars

-----------------------------------------------------------------------------
(* One call of clean_content *)

CleanInit ==
    /\ now = FirstTick /\ end_date = now /\ start_date = end_date - DayLen
    /\ files = NoDir
    /\ dirAtStart = files
    /\ RunIdle /\ RaceIdle
    /\ call = "pending"
    /\ article = NoEntry /\ response = NoResponse
    /\ content \in SeqsUpTo(Chars, MaxLen)
    /\ returned = <<>>

CallClean ==
    /\ call = "pending"
    /\ returned' = clean_content(content)
    /\ call' = "returned"
    /\ UNCHANGED <<clockVars, files, runVars, raceVars, article, response, content>>

SpecClean == CleanInit /\ [][CallClean]_vars

-----------------------------------------------------------------------------
(* Two runs that append to the batch file of the same day.  save_article     *)
(* reads the file (lines 319-325) and writes it (lines 331-332) in two steps. *)

RaceArticle(r, k) == Article(r, k, clean_content(Summary))

RaceInit ==
    /\ now = FirstTick /\ end_date = now /\ start_date = end_date - DayLen
    /\ files \in InitialDirs
    /\ dirAtStart = files
    /\ pc = "idle" /\ feedIdx = 1 /\ numEntries = 0 /\ entryIdx = 1
    /\ entry = NoEntry /\ articles_processed = 0 /\ article_data = NoArticle
    /\ fetched = [f \in 1..NumFeeds |-> "pending"]
    /\ examined = {} /\ handed = <<>> /\ cleanups = 0
    /\ beforeCleanup = [files |-> NoDir, t |-> 0, failing |-> {}]
    /\ CallIdle
    /\ runPc = [r \in Runs |-> "read"]
    /\ existing_articles = [r \in Runs |-> <<>>]
    /\ runLeft = [r \in Runs |-> ArticlesPerRun]
    /\ overlapped = FALSE

\* lines 318-325 in run r
RaceRead(r) ==
    /\ runPc[r] = "read"
    /\ existing_articles' =
           [existing_articles EXCEPT ![r] = LoadExisting(files[BatchName(now)])]
    /\ runPc' = [runPc EXCEPT ![r] = "write"]
    /\ overlapped' = (overlapped \/ \E o \in Runs \ {r} : runPc[o] = "write")
    /\ UNCHANGED <<clockVars, files, runVars, callVars, runLeft>>

\* lines 328-332 in run r
RaceWrite(r) ==
    /\ runPc[r] = "write"
    /\ files' = [files EXCEPT ![BatchName(now)] =
                     WriteBack(existing_articles[r], RaceArticle(r, runLeft[r]))]
    /\ handed' = Append(handed, [feed |-> r, idx |-> runLeft[r], entry |-> NoEntry,
                                  article |-> RaceArticle(r, runLeft[r])])
    /\ runLeft' = [runLeft EXCEPT ![r] = runLeft[r] - 1]
    /\ runPc' = [runPc EXCEPT ![r] = IF runLeft[r] = 1 THEN "done" ELSE "read"]
    /\ UNCHANGED <<clockVars, callVars, existing_articles, overlapped>>
    /\ UNCHANGED <<pc, feedIdx, numEntries, entryIdx, entry, articles_processed,
                   article_data, fetched, examined, cleanups, beforeCleanup>>

RaceNext == \E r \in Runs : RaceRead(r) \/ RaceWrite(r)

SpecRace == RaceInit /\ [][RaceNext]_vars

-----------------------------------------------------------------------------
(* The claims *)

\* i-th name of a list of field names, the first one the entry has
FirstPresent(a, names, missing) ==
    LET present == {i \in 1..Len(names) : a[names[i]] # missing}
    IN  IF present = {} THEN missing
        ELSE a[names[CHOOSE i \in present : \A j \in present : i <= j]]

\* the publication date of an entry as the claim reads it
PublicationDate(a) == FirstPresent(a, <<"published", "pubDate", "updated">>, NoDate)

\* C1: is_article_from_yesterday returns True exactly when the first of the
\* fields published, pubDate, updated that the entry has parses to the target
\* day, the day of start_date, which is the day before the run; for any other
\* day, a date that cannot be parsed and a missing date it returns False, and
\* it never raises.
C1_DateWindowFilter ==
    call = "returned" =>
        /\ date(start_date) = date(now) - 1
        /\ returned \in {"True", "False"}
        /\ returned = "True" <=>
               /\ PublicationDate(article).text = "date"
               /\ date(PublicationDate(article).ts) = date(now) - 1

\* C1 happens: an entry without published, dated yesterday by pubDate, with an
\* updated that cannot be parsed, is accepted.
C1_Witness ==
    /\ call = "returned"
    /\ article.published = NoDate
    /\ article.pubDate = DateAt(start_date)
    /\ article.updated = GarbageDate
    /\ returned = "True"

\* the entry's own content as the claims read it: the rich content, else the
\* summary, else the description, else the empty text
EmbeddedContent(a) ==
    LET v == FirstPresent(a, <<"content", "summary", "description">>, <<>>)
    IN  IF v = <<>> THEN <<>> ELSE v[1]

\* C2: when the fetch of the page fails, or the page read has no located
\* container of at least 50 words, extract_article_content returns the rich
\* content if the entry has it, else the summary, else the description, else
\* the empty text.
C2_FallbackOrder ==
    ( /\ call = "returned"
      /\ article.link # <<>>
      /\ \/ response.kind = "error"
         \/ /\ response.kind = "html"
            /\ ~(response.container /\ response.words >= SubstantialWords) )
    => returned = EmbeddedContent(article)

\* C2 happens: the fetch failed, the entry has no rich content, and of its
\* summary and its description the summary is returned.
C2_Witness ==
    /\ call = "returned"
    /\ response.kind = "error"
    /\ article.link # <<>>
    /\ article.content = <<>>
    /\ article.summary = <<<<"x">>>>
    /\ article.description = <<<<"x", "x">>>>
    /\ returned = <<"x">>

\* C7: an error of the page fetch and an exception raised while the page is
\* parsed or its text extracted both end in the entry's own content (rich
\* content, else summary, else description); content the entry has is never
\* passed over.
C7_FailureFallsBack ==
    ( /\ call = "returned"
      /\ article.link # <<>>
      /\ response.kind \in {"error", "raise"} )
    => returned = EmbeddedContent(article)

\* C8: clean_content is idempotent: cleaning a cleaned text gives it back.
C8_CleanIdempotent ==
    call = "returned" => clean_content(returned) = returned

\* the array save_article starts from, as the claim reads it
StartingArray(file) == IF file.kind = "array" THEN file.data ELSE <<>>

\* C3: after every call of save_article in a run, the batch file of the day
\* holds its starting array followed by the new article as last element, the
\* starting array being the array of the file, or the empty array when the
\* file is missing or does not parse; no other file changes.
C3_AppendKeepsBatch ==
    [][ (pc = "save" /\ pc' # "save") =>
            /\ files'[BatchName(now)] =
                   ArrayFile(Append(StartingArray(files[BatchName(now)]), article_data))
            /\ \A n \in DOMAIN files \ {BatchName(now)} : files'[n] = files[n] ]_vars

\* C3 happens: two articles were appended over a corrupt batch file, which now
\* holds the two of them in the order of their saving.
C3_Witness ==
    /\ Len(handed) = 2
    /\ pc = "entry"
    /\ dirAtStart[BatchName(now)] = CorruptFile
    /\ files[BatchName(now)] = ArrayFile(<<handed[1].article, handed[2].article>>)

\* the calls of save_article for entries of feed f
HandedOf(f) == {k \in 1..Len(handed) : handed[k].feed = f}

\* the feed last fetched, whose entries the loop reads or has read; 0 if none
LastFeed ==
    IF \A f \in 1..NumFeeds : fetched[f] # "ok" THEN 0
    ELSE CHOOSE f \in 1..NumFeeds :
             fetched[f] = "ok" /\ \A g \in (f + 1)..NumFeeds : fetched[g] # "ok"

\* the articles of entry i of feed f in the files of the directory
ArticlesOf(f, i) ==
    {<<n, k>> \in UNION {{n} \X (1..Len(files[n].data)) : n \in DOMAIN files} :
        files[n].data[k].feed_url = f /\ files[n].data[k].link = i}

\* C4: every article the run has put into a batch file comes from an entry
\* that passed the date filter and has cleaned content that is not empty; an
\* entry that failed the filter or gave no content has no article there.
C4_OnlyQualifyingArticles ==
    /\ \A n \in DOMAIN files : \A k \in 1..Len(files[n].data) :
          \/ files[n].data[k] = OldArticle
          \/ \E h \in 1..Len(handed) :
                /\ handed[h].article = files[n].data[k]
                /\ PublicationDate(handed[h].entry).text = "date"
                /\ date(PublicationDate(handed[h].entry).ts) = date(end_date) - 1
                /\ handed[h].article.content # <<>>
                /\ \E r \in AllResponses :
                      handed[h].article.content =
                          clean_content(extract_article_content(handed[h].entry, r))
    /\ \A i \in examined :
          (\A h \in HandedOf(LastFeed) : handed[h].idx # i)
              => ArticlesOf(LastFeed, i) = {}

\* C4 happens: the run has put an article into the batch file of the day and
\* has met an entry that gave none.
C4_Witness ==
    /\ Len(handed) >= 1
    /\ \E k \in 1..Len(files[BatchName(now)].data) :
          files[BatchName(now)].data[k] = handed[1].article
    /\ \E i \in examined : \A h \in HandedOf(LastFeed) : handed[h].idx # i

\* C9: no feed has more than MAX_ARTICLES_PER_FEED articles handed to
\* save_article; an entry reaches the date filter only while fewer than that
\* many earlier entries of its feed were saved, and only such an entry is
\* saved; the count is that of the feed being read.
C9_PerFeedCap ==
    /\ \A f \in 1..NumFeeds : Cardinality(HandedOf(f)) <= MAX_ARTICLES_PER_FEED
    /\ \A i \in examined :
          Cardinality({h \in HandedOf(LastFeed) : handed[h].idx < i})
              < MAX_ARTICLES_PER_FEED
    /\ \A h \in HandedOf(LastFeed) : handed[h].idx \in examined
    /\ pc \in {"entry", "save"} =>
          /\ feedIdx = LastFeed
          /\ articles_processed = Cardinality(HandedOf(feedIdx))

\* C9 happens: the first feed reached the limit, and the second feed, counted
\* from zero, has reached it too with an entry left.
C9_Witness ==
    /\ pc = "entry" /\ feedIdx = 2
    /\ entryIdx <= numEntries
    /\ Cardinality(HandedOf(1)) = MAX_ARTICLES_PER_FEED
    /\ Cardinality(HandedOf(2)) = MAX_ARTICLES_PER_FEED
    /\ articles_processed = MAX_ARTICLES_PER_FEED

\* C10: cleanup_old_files runs once, after the last feed; after it the batch
\* file of the day is as it was, and every other JSON file whose deletion did
\* not fail is gone.
C10_CleanupKeepsToday ==
    /\ cleanups <= 1
    /\ cleanups = 1 <=> pc = "done"
    /\ pc = "done" =>
          /\ feedIdx > NumFeeds
          /\ \A f \in 1..NumFeeds : fetched[f] # "pending"
          /\ files[BatchName(beforeCleanup.t)]
                = beforeCleanup.files[BatchName(beforeCleanup.t)]
          /\ \A n \in DOMAIN files \ {BatchName(beforeCleanup.t)} :
                (n[3] = "json" /\ n \notin beforeCleanup.failing)
                    => files[n] = AbsentFile

\* C10 happens: after cleanup the batch file of the day holds the article of
\* the run, and the per-article file that was there is gone.
C10_Witness ==
    /\ pc = "done"
    /\ Len(handed) >= 1
    /\ files[BatchName(now)].kind = "array"
    /\ handed[1].article = files[BatchName(now)].data[Len(files[BatchName(now)].data)]
    /\ beforeCleanup.files[LegacyName] = ObjectFile
    /\ files[LegacyName] = AbsentFile

\* when the loop is not inside a feed, every entry of the feed last fetched
\* has reached the date filter, unless the limit of the feed was reached
\* before it
FeedProcessed ==
    pc \in {"feed", "done"} =>
        \A i \in 1..numEntries :
            \/ i \in examined
            \/ Cardinality({h \in HandedOf(LastFeed) : handed[h].idx < i})
                   >= MAX_ARTICLES_PER_FEED

\* C6: whatever fails, a feed, an entry or the batch file, the run goes on
\* with the later entries of the feed and with the later feeds, reaches
\* cleanup_old_files and ends.
C6_RunCompletes ==
    /\ []FeedProcessed
    /\ <>(/\ pc = "done"
          /\ cleanups = 1
          /\ \A f \in 1..NumFeeds : fetched[f] # "pending")

\* C6 happens: the batch file was corrupt, the first feed failed, and in the
\* second feed an entry was saved after an entry that gave no article; the
\* run has ended.
C6_Witness ==
    /\ pc = "done"
    /\ dirAtStart[BatchName(end_date)] = CorruptFile
    /\ fetched[1] = "failed"
    /\ fetched[2] = "ok"
    /\ 1 \in examined
    /\ HandedOf(2) # {}
    /\ \A h \in HandedOf(2) : handed[h].idx > 1

\* the articles the two runs wrote that the batch file does not hold
Lost ==
    {h \in 1..Len(handed) :
        \A k \in 1..Len(files[BatchName(now)].data) :
            files[BatchName(now)].data[k] # handed[h].article}

\* C5: when two runs have appended to the batch file of the same day, an
\* article of one of them is missing from the file exactly when a read of one
\* run fell between a read and the write of the other; when the appends
\* followed one another, every article is in the file.
C5_LostUpdate ==
    (\A r \in Runs : runPc[r] = "done") => (Lost # {} <=> overlapped)

\* C5 happens: both runs are done and an article one of them appended is
\* missing from the file.
C5_Witness ==
    /\ \A r \in Runs : runPc[r] = "done"
    /\ Len(handed) = 2 * ArticlesPerRun
    /\ Lost # {}

====
